---- MODULE Spec2Model ----
(***************************************************************************)
(* Marker-format loader and dictionary synthesizer of the marker scanner:  *)
(* load_custom_markers and create_custom_dictionary (marker_scanner.py),   *)
(* run in sequence as main() runs them.                                    *)
(*                                                                         *)
(* A str is a sequence of one-character strings.  A marker file is a       *)
(* sequence of lines; iterating the file yields each line followed by its  *)
(* line terminator.                                                        *)
(***************************************************************************)
EXTENDS Integers, Sequences, FiniteSets, TLC

VARIABLES
    source,      \* the lines of the markers file, in file order
    pos,         \* index in source of the next line `for line in f` yields
    markers,     \* the dict built by load_custom_markers, in insertion order
    pc,          \* "start", "load", "load_error", "create", "generate",
                 \* "create_error", "done", "quit", "idle", "exit"
    err,         \* the exception that ended the run, or "none"
    it,          \* index in markers of the next item markers.items() yields
    bytesList,   \* dictionary.bytesList: slot -> byte list of the entry
    front,       \* the program run: "cli", "web", "tk", "kivy" or "utils"
    dictionary,  \* the caller's dictionary variable: "unset" (never
                 \* assigned), "None", or "object" (the dictionary whose
                 \* bytesList is the variable above)
    is_running,  \* the camera flag of the window front ends
    calls,       \* how often each of the three functions has been entered
    reported,    \* the failure shown to the operator, or "none"
    handed,      \* the dictionary has been passed to ArucoDetector or to
                 \* generateImageMarker
    threads,     \* tkinter: the update_frame threads started so far, each
                 \* with the place it has reached
    capture,     \* self.capture: "None", "opened" or "unopened"
    update_event,  \* kivy: self.update_event: "unset", "scheduled" or
                 \* "cancelled"
    frames,      \* web: the payloads of the 'frame' events handled
    emitted,     \* web: for each of them the messages emitted, in order
    detected_markers,  \* kivy: self.detected_markers, id -> timestamp
    now,         \* time.time()
    last_call    \* the time and the ids of the last completed
                 \* update_detected_markers, or <<>>

\* the variables only the detailed window and socket steps write
gui == <<threads, capture, update_event, frames, emitted, detected_markers,
         now, last_call>>

\* the variables only the front ends write
shell == <<front, is_running, reported, handed, gui>>

vars == <<source, pos, markers, pc, err, it, bytesList, dictionary, calls, shell>>

\* no thread, no camera, no frame, no detection yet
GuiInit ==
    /\ threads = <<>>
    /\ capture = "None"
    /\ update_event = "unset"
    /\ frames = <<>>
    /\ emitted = <<>>
    /\ detected_markers = <<>>
    /\ now = 0
    /\ last_call = <<>>

----------------------------------------------------------------------------
(* Bounds of the model *)

\* the longest marker file explored, in lines
MaxLines == 3

----------------------------------------------------------------------------
(* str primitives used by load_custom_markers *)

\* str.strip() and str.split() treat these as whitespace
Whitespace == {" ", "\t", "\n", "\r", "\f"}

DecimalDigits == {"0", "1", "2", "3", "4", "5", "6", "7", "8", "9"}

DigitValue(c) ==
    CASE c = "0" -> 0 [] c = "1" -> 1 [] c = "2" -> 2 [] c = "3" -> 3
      [] c = "4" -> 4 [] c = "5" -> 5 [] c = "6" -> 6 [] c = "7" -> 7
      [] c = "8" -> 8 [] c = "9" -> 9

Least(S) == CHOOSE k \in S : \A j \in S : k <= j

Greatest(S) == CHOOSE k \in S : \A j \in S : j <= k

\* s.lstrip(): drop the leading whitespace
RECURSIVE lstrip(_)
lstrip(s) ==
    IF s # <<>> /\ Head(s) \in Whitespace THEN lstrip(Tail(s)) ELSE s

\* s.rstrip(): drop the trailing whitespace
RECURSIVE rstrip(_)
rstrip(s) ==
    IF s # <<>> /\ s[Len(s)] \in Whitespace
    THEN rstrip(SubSeq(s, 1, Len(s) - 1))
    ELSE s

\* line.strip()
strip(s) == rstrip(lstrip(s))

\* line.startswith('#')
startswith(s, c) == s # <<>> /\ s[1] = c

\* the positions of s at which an occurrence of sep starts
Occurrences(s, sep) ==
    {k \in 1..(Len(s) - Len(sep) + 1) :
        \A n \in 1..Len(sep) : s[k + n - 1] = sep[n]}

\* s.split(sep): cut at every non-overlapping occurrence of sep, scanning
\* from the left
RECURSIVE splitOn(_, _)
splitOn(s, sep) ==
    IF Occurrences(s, sep) = {} THEN <<s>>
    ELSE LET k == Least(Occurrences(s, sep))
         IN  <<SubSeq(s, 1, k - 1)>>
                 \o splitOn(SubSeq(s, k + Len(sep), Len(s)), sep)

\* the delimiter of line.strip().split(': ')
Delimiter == <<":", " ">>

\* parts = line.strip().split(': ')
Parts(line) == splitOn(strip(line), Delimiter)

\* s.split() without arguments: cut at runs of whitespace, no empty tokens
RECURSIVE splitWhitespace(_)
splitWhitespace(s) ==
    LET t == lstrip(s)
        gaps == {k \in 1..Len(t) : t[k] \in Whitespace}
    IN  IF t = <<>> THEN <<>>
        ELSE IF gaps = {} THEN <<t>>
             ELSE <<SubSeq(t, 1, Least(gaps) - 1)>>
                      \o splitWhitespace(SubSeq(t, Least(gaps), Len(t)))

\* int(s): optional surrounding whitespace, optional sign, decimal digits
\* with single underscores allowed between digits
IntSign(s) == IF startswith(strip(s), "-") THEN -1 ELSE 1

IntBody(s) ==
    LET t == strip(s)
    IN  IF startswith(t, "-") \/ startswith(t, "+") THEN Tail(t) ELSE t

IntValid(s) ==
    LET b == IntBody(s)
    IN  /\ b # <<>>
        /\ \A k \in 1..Len(b) : b[k] \in DecimalDigits \cup {"_"}
        /\ b[1] # "_"
        /\ b[Len(b)] # "_"
        /\ \A k \in 1..(Len(b) - 1) : ~(b[k] = "_" /\ b[k + 1] = "_")

RECURSIVE DigitsValue(_, _)
DigitsValue(b, acc) ==
    IF b = <<>> THEN acc
    ELSE IF Head(b) = "_" THEN DigitsValue(Tail(b), acc)
         ELSE DigitsValue(Tail(b), 10 * acc + DigitValue(Head(b)))

\* the value of int(s) when it does not raise ValueError
int(s) == IntSign(s) * DigitsValue(IntBody(s), 0)

----------------------------------------------------------------------------
(* The grid of one data line *)

White == 255
Black == 0

\* variant: the array starts filled with 255
full255 == [i \in 0..7 |-> [j \in 0..7 |-> 255]]

\* np.zeros((8, 8), dtype=np.uint8)
zeros8 == [i \in 0..7 |-> [j \in 0..7 |-> 0]]

\* variant: black is written as the bit 1
CellOfBlackAsBit(bit) == IF bit = "0" THEN White ELSE 1

\* variant: only '1' is black
CellOfOnlyOneBlack(bit) == IF bit = "1" THEN Black ELSE White

\* variant: '0' is black and everything else white
CellOfInverted(bit) == IF bit = "0" THEN Black ELSE White

\* 255 if bit == '0' else 0
CellOf(bit) == IF bit = "0" THEN White ELSE Black

\* marker_array[i, j] = ... raises IndexError as soon as i or j reaches 8
FitsGrid(binary_rows) ==
    /\ Len(binary_rows) <= 8
    /\ \A i \in 1..Len(binary_rows) : Len(binary_rows[i]) <= 8

\* marker_array after the two enumerate loops, when no write is out of bounds
FillGrid(binary_rows) ==
    [i \in 0..7 |-> [j \in 0..7 |->
        IF i < Len(binary_rows) /\ j < Len(binary_rows[i + 1])
        THEN CellOf(binary_rows[i + 1][j + 1])
        ELSE zeros8[i][j]]]

----------------------------------------------------------------------------
(* The dict markers: a sequence of items in insertion order *)

Keys(d) == {d[k].id : k \in 1..Len(d)}

IndexOf(d, id) == CHOOSE k \in 1..Len(d) : d[k].id = id

\* d[id] for a key of d
Get(d, id) == d[IndexOf(d, id)].grid

\* variant: an existing key keeps its first value
SetItemKeepFirst(d, id, grid) ==
    IF id \in Keys(d) THEN d ELSE Append(d, [id |-> id, grid |-> grid])

\* variant: one array is shared by all items (allocated once, before the
\* loop), so every item shows the cells written last
SetItemAliased(d, id, grid) ==
    LET e == IF id \in Keys(d) THEN d ELSE Append(d, [id |-> id, grid |-> grid])
    IN  [n \in 1..Len(e) |-> [id |-> e[n].id, grid |-> grid]]

\* d[id] = grid: a new key is appended, an existing key keeps its place and
\* takes the new value
SetItem(d, id, grid) ==
    IF id \in Keys(d)
    THEN [d EXCEPT ![IndexOf(d, id)] = [id |-> id, grid |-> grid]]
    ELSE Append(d, [id |-> id, grid |-> grid])

----------------------------------------------------------------------------
(* create_custom_dictionary: the entry encoded for one marker *)

\* the capacity of DICT_6X6_250, tested by `if marker_id < 250`
BaseCapacity == 250

Slots == 0..(BaseCapacity - 1)

\* variant: the slice starts at the border, marker_array[0:6, 0:6]
inner_marker_with_border(marker_array) ==
    [i \in 0..5 |-> [j \in 0..5 |-> marker_array[i][j]]]

\* marker_array[1:7, 1:7]
inner_marker(marker_array) ==
    [i \in 0..5 |-> [j \in 0..5 |-> marker_array[i + 1][j + 1]]]

\* variant: the polarity is kept, 1 for white and 0 for black
inner_marker_bin_uninverted(marker_array) ==
    [i \in 0..5 |-> [j \in 0..5 |->
        IF inner_marker(marker_array)[i][j] = 255 THEN 1 ELSE 0]]

\* inner_marker_bin[i, j] = 0 if inner_marker[i, j] == 255 else 1
inner_marker_bin(marker_array) ==
    [i \in 0..5 |-> [j \in 0..5 |->
        IF inner_marker(marker_array)[i][j] = 255 THEN 0 ELSE 1]]

\* the bit that rotation r of the 6x6 matrix has at (row, col)
RotatedBit(bits, r, row, col) ==
    CASE r = 0 -> bits[row][col]
      [] r = 1 -> bits[col][5 - row]
      [] r = 2 -> bits[5 - row][5 - col]
      [] r = 3 -> bits[5 - col][row]

\* bits n..hi of rotation r in row-major order, shifted in from the right
RECURSIVE ShiftIn(_, _, _, _, _)
ShiftIn(bits, r, n, hi, acc) ==
    IF n > hi THEN acc
    ELSE ShiftIn(bits, r, n + 1, hi,
                 2 * acc + RotatedBit(bits, r, n \div 6, n % 6))

\* cv2.aruco.Dictionary.getByteListFromBits: for each of the 4 rotations the
\* 36 bits packed 8 to a byte, 5 bytes per rotation, the last holding 4 bits
getByteListFromBits(bits) ==
    [n \in 0..19 |->
        LET r == n \div 5
            b == n % 5
            hi == IF 8 * b + 7 > 35 THEN 35 ELSE 8 * b + 7
        IN  ShiftIn(bits, r, 8 * b, hi, 0)]

\* bytes_marker for one marker_array
bytes_marker(marker_array) == getByteListFromBits(inner_marker_bin(marker_array))

\* cv2.aruco.getPredefinedDictionary(cv2.aruco.DICT_6X6_250).bytesList.  The
\* predefined patterns are kept symbolic: entry s is a byte list that no
\* packing produces, so a slot that was written differs from its base entry.
PredefinedEntry(s) == [n \in 0..19 |-> 256 + s]

getPredefinedDictionary == [s \in Slots |-> PredefinedEntry(s)]

\* dictionary.bytesList[marker_id] addresses a slot for -250 <= marker_id < 250
\* (a negative index counts from the end) and raises IndexError otherwise
InBounds(marker_id) == -BaseCapacity <= marker_id /\ marker_id < BaseCapacity

\* variant: ids are taken as 1-based slot numbers
SlotOfOneBased(marker_id) ==
    IF marker_id < 0 THEN BaseCapacity + marker_id ELSE marker_id - 1

SlotOf(marker_id) == IF marker_id < 0 THEN BaseCapacity + marker_id ELSE marker_id

----------------------------------------------------------------------------
(* The marker files explored *)

Row_00000000 == <<"0", "0", "0", "0", "0", "0", "0", "0">>
Row_01111110 == <<"0", "1", "1", "1", "1", "1", "1", "0">>
Row_01000010 == <<"0", "1", "0", "0", "0", "0", "1", "0">>
Row_01011010 == <<"0", "1", "0", "1", "1", "0", "1", "0">>
Row_00111100 == <<"0", "0", "1", "1", "1", "1", "0", "0">>
Row_01010100 == <<"0", "1", "0", "1", "0", "1", "0", "0">>
Row_00100000 == <<"0", "0", "1", "0", "0", "0", "0", "0">>

RECURSIVE JoinRows(_)
JoinRows(rows) ==
    IF rows = <<>> THEN <<>>
    ELSE IF Len(rows) = 1 THEN rows[1]
         ELSE rows[1] \o <<" ">> \o JoinRows(Tail(rows))

\* the text "<id>: <row0> <row1> ..."
DataLine(id, rows) == id \o Delimiter \o JoinRows(rows)

\* 24: 00000000 01111110 01000010 01011010 01011010 01000010 01111110 00000000
Marker24 ==
    DataLine(<<"2", "4">>,
             <<Row_00000000, Row_01111110, Row_01000010, Row_01011010,
               Row_01011010, Row_01000010, Row_01111110, Row_00000000>>)

\* +24: 00000000 00111100         (the id 24 again, written differently)
Marker24Again == DataLine(<<"+", "2", "4">>, <<Row_00000000, Row_00111100>>)

\* 7: 0x2O01-0 10#:0_ 1          (characters other than 0 and 1, short row
\*                                tokens, fewer than 8 of them)
Marker7 ==
    DataLine(<<"7">>,
             <<<<"0", "x", "2", "O", "0", "1", "-", "0">>,
               <<"1", "0", "#", ":", "0", "_">>, <<"1">>>>)

\* -1: 00000000 01010100 00111100
MarkerMinus1 ==
    DataLine(<<"-", "1">>, <<Row_00000000, Row_01010100, Row_00111100>>)

\* 249: 00000000 01111110
Marker249 == DataLine(<<"2", "4", "9">>, <<Row_00000000, Row_01111110>>)

\* -251: 0
MarkerMinus251 == DataLine(<<"-", "2", "5", "1">>, <<<<"0">>>>)

\* 300: 00000000 00100000
Marker300 == DataLine(<<"3", "0", "0">>, <<Row_00000000, Row_00100000>>)

\* abc: 00000000 01111110
BadId == DataLine(<<"a", "b", "c">>, <<Row_00000000, Row_01111110>>)

\* 24 00000000                    (no delimiter)
NoDelimiter == <<"2", "4", " ">> \o Row_00000000

\* 5: 0000: 1111                  (two delimiters)
TwoDelimiters ==
    <<"5">> \o Delimiter \o <<"0", "0", "0", "0">> \o Delimiter
            \o <<"1", "1", "1", "1">>

\* 9: 000000001                   (a row token of 9 characters)
LongToken == DataLine(<<"9">>, <<Row_00000000 \o <<"1">>>>)

\* 8: 0 1 0 1 0 1 0 1 0           (9 row tokens)
NineRows ==
    DataLine(<<"8">>,
             <<<<"0">>, <<"1">>, <<"0">>, <<"1">>, <<"0">>, <<"1">>, <<"0">>,
               <<"1">>, <<"0">>>>)

\* # 24: 11111111
Comment == <<"#", " ">> \o DataLine(<<"2", "4">>, <<<<"1", "1", "1", "1", "1", "1", "1", "1">>>>)

\* a line of two blanks
Blank == <<" ", " ">>

Catalog ==
    {Marker24, Marker24Again, Marker7, MarkerMinus1, MarkerMinus251,
     Marker300, BadId, NoDelimiter, TwoDelimiters, LongToken, NineRows,
     Comment, Blank}

\* every file of at most MaxLines lines of the catalog
Sources == UNION {[1..n -> Catalog] : n \in 0..MaxLines}

----------------------------------------------------------------------------
(* load_custom_markers, one step per line of the file *)

\* the line `for line in f` yields: the text and its terminator
LineAt(src, k) == src[k] \o <<"\n">>

\* variant: only blank lines are skipped
IsCommentOrBlankNoHash(line) == strip(line) = <<>>

\* if line.startswith('#') or not line.strip(): continue
IsCommentOrBlank(line) == startswith(line, "#") \/ strip(line) = <<>>

\* variant: a line of more than two parts is taken as a data line
WrongPartCountFewerOnly(line) == Len(Parts(line)) < 2

\* if len(parts) != 2: continue
WrongPartCount(line) == Len(Parts(line)) # 2

\* a line that reaches marker_id = int(parts[0])
IsDataLine(line) == ~IsCommentOrBlank(line) /\ ~WrongPartCount(line)

\* marker_id = int(parts[0])
marker_id(line) == int(Parts(line)[1])

\* binary_rows = parts[1].split()
binary_rows(line) == splitWhitespace(Parts(line)[2])

Init ==
    /\ source \in Sources
    /\ pos = 1
    /\ markers = <<>>
    /\ pc = "load"
    /\ err = "none"
    /\ it = 1
    /\ bytesList = <<>>
    /\ front = "cli"
    /\ dictionary = "unset"
    /\ is_running = FALSE
    /\ calls = [load_custom_markers |-> 1, create_custom_dictionary |-> 0,
                detect_markers |-> 0]
    /\ reported = "none"
    /\ handed = FALSE
    /\ GuiInit

Loading == pc = "load" /\ pos <= Len(source)

SkipCommentOrBlank ==
    /\ Loading
    /\ IsCommentOrBlank(LineAt(source, pos))
    /\ pos' = pos + 1
    /\ UNCHANGED <<source, markers, pc, err, it, bytesList, dictionary,
                 calls, shell>>

SkipPartCount ==
    /\ Loading
    /\ ~IsCommentOrBlank(LineAt(source, pos))
    /\ WrongPartCount(LineAt(source, pos))
    /\ pos' = pos + 1
    /\ UNCHANGED <<source, markers, pc, err, it, bytesList, dictionary,
                 calls, shell>>

\* variant: a line whose id is no integer is skipped like a malformed line
RaiseValueErrorSwallowed ==
    /\ Loading
    /\ IsDataLine(LineAt(source, pos))
    /\ ~IntValid(Parts(LineAt(source, pos))[1])
    /\ pos' = pos + 1
    /\ UNCHANGED <<source, markers, pc, err, it, bytesList, dictionary,
                 calls, shell>>

\* int(parts[0]) raises ValueError: the call ends without returning
RaiseValueError ==
    /\ Loading
    /\ IsDataLine(LineAt(source, pos))
    /\ ~IntValid(Parts(LineAt(source, pos))[1])
    /\ pc' = "load_error"
    /\ err' = "ValueError"
    /\ UNCHANGED <<source, pos, markers, it, bytesList, dictionary, calls,
                 shell>>

\* marker_array[i, j] = ... raises IndexError: the call ends without returning
RaiseIndexError ==
    /\ Loading
    /\ IsDataLine(LineAt(source, pos))
    /\ IntValid(Parts(LineAt(source, pos))[1])
    /\ ~FitsGrid(binary_rows(LineAt(source, pos)))
    /\ pc' = "load_error"
    /\ err' = "IndexError"
    /\ UNCHANGED <<source, pos, markers, it, bytesList, dictionary, calls,
                 shell>>

\* markers[marker_id] = marker_array
StoreMarker ==
    /\ Loading
    /\ IsDataLine(LineAt(source, pos))
    /\ IntValid(Parts(LineAt(source, pos))[1])
    /\ FitsGrid(binary_rows(LineAt(source, pos)))
    /\ markers' = SetItem(markers, marker_id(LineAt(source, pos)),
                          FillGrid(binary_rows(LineAt(source, pos))))
    /\ pos' = pos + 1
    /\ UNCHANGED <<source, pc, err, it, bytesList, dictionary, calls, shell>>

\* return markers; main() goes on to create_custom_dictionary(markers), which
\* starts from the predefined dictionary
LoadReturn ==
    /\ pc = "load"
    /\ pos > Len(source)
    /\ front # "utils"
    /\ ~(front = "tk" /\ markers = <<>>)
    /\ pc' = "create"
    /\ it' = 1
    /\ bytesList' = getPredefinedDictionary
    /\ calls' = [calls EXCEPT !.create_custom_dictionary = @ + 1]
    /\ UNCHANGED <<source, pos, markers, err, dictionary, shell>>

----------------------------------------------------------------------------
(* create_custom_dictionary, one step per item of markers *)

Creating == pc = "create" /\ it <= Len(markers)

\* marker_id >= 250: the body of the if is not run
CreateSkip ==
    /\ Creating
    /\ ~(markers[it].id < BaseCapacity)
    /\ it' = it + 1
    /\ UNCHANGED <<source, pos, markers, pc, err, bytesList, dictionary,
                 calls, shell>>

\* dictionary.bytesList[marker_id] = bytes_marker
CreateWrite ==
    /\ Creating
    /\ markers[it].id < BaseCapacity
    /\ InBounds(markers[it].id)
    /\ bytesList' = [bytesList EXCEPT
                        ![SlotOf(markers[it].id)] = bytes_marker(markers[it].grid)]
    /\ it' = it + 1
    /\ UNCHANGED <<source, pos, markers, pc, err, dictionary, calls, shell>>

\* dictionary.bytesList[marker_id] raises IndexError for marker_id < -250
CreateIndexError ==
    /\ Creating
    /\ markers[it].id < BaseCapacity
    /\ ~InBounds(markers[it].id)
    /\ pc' = "create_error"
    /\ err' = "IndexError"
    /\ UNCHANGED <<source, pos, markers, it, bytesList, dictionary, calls,
                 shell>>

\* return dictionary; the caller assigns it
CreateReturn ==
    /\ pc = "create"
    /\ it > Len(markers)
    /\ pc' = "done"
    /\ dictionary' = "object"
    /\ UNCHANGED <<source, pos, markers, err, it, bytesList, calls, shell>>

Next ==
    \/ SkipCommentOrBlank
    \/ SkipPartCount
    \/ RaiseValueError
    \/ RaiseIndexError
    \/ StoreMarker
    \/ LoadReturn
    \/ CreateSkip
    \/ CreateWrite
    \/ CreateIndexError
    \/ CreateReturn

Spec == Init /\ [][Next]_vars

----------------------------------------------------------------------------
(* A file of one full data line, over every choice of its 8 row tokens *)

Row_10010011 == <<"1", "0", "0", "1", "0", "0", "1", "1">>

\* 0x2O01-0
Row_0x2O01m0 == <<"0", "x", "2", "O", "0", "1", "-", "0">>

GridRowTokens == {Row_01111110, Row_10010011, Row_0x2O01m0}

\* 24: <row0> ... <row7>, every row one of the three tokens
GridSources ==
    {<<DataLine(<<"2", "4">>, rows)>> : rows \in [1..8 -> GridRowTokens]}

InitGrids ==
    /\ source \in GridSources
    /\ pos = 1
    /\ markers = <<>>
    /\ pc = "load"
    /\ err = "none"
    /\ it = 1
    /\ bytesList = <<>>
    /\ front = "cli"
    /\ dictionary = "unset"
    /\ is_running = FALSE
    /\ calls = [load_custom_markers |-> 1, create_custom_dictionary |-> 0,
                detect_markers |-> 0]
    /\ reported = "none"
    /\ handed = FALSE
    /\ GuiInit

NextGrids ==
    \/ StoreMarker
    \/ LoadReturn
    \/ CreateWrite
    \/ CreateReturn

SpecGrids == InitGrids /\ [][NextGrids]_vars

----------------------------------------------------------------------------
(* load_custom_markers as a function of the whole file *)

\* the result of the call on src: the dict returned, or the exception raised
RECURSIVE LoadFrom(_, _, _)
LoadFrom(src, k, d) ==
    IF k > Len(src) THEN [error |-> "none", markers |-> d]
    ELSE IF IsCommentOrBlank(LineAt(src, k)) \/ WrongPartCount(LineAt(src, k))
         THEN LoadFrom(src, k + 1, d)
    ELSE IF ~IntValid(Parts(LineAt(src, k))[1])
         THEN [error |-> "ValueError", markers |-> <<>>]
    ELSE IF ~FitsGrid(binary_rows(LineAt(src, k)))
         THEN [error |-> "IndexError", markers |-> <<>>]
    ELSE LoadFrom(src, k + 1,
                  SetItem(d, marker_id(LineAt(src, k)),
                          FillGrid(binary_rows(LineAt(src, k)))))

load_custom_markers(src) == LoadFrom(src, 1, <<>>)

----------------------------------------------------------------------------
(* Vocabulary of the properties *)

\* load_custom_markers has returned its dict to main()
Returned == pc \in {"create", "done", "create_error"}

\* load_custom_markers has ended, by return or by exception
LoadEnded == pc # "load"

\* what the run of load_custom_markers produced
Outcome ==
    IF pc = "load_error"
    THEN [error |-> err, markers |-> <<>>]
    ELSE [error |-> "none", markers |-> markers]

\* the number of occurrences of ": " in the stripped line
DelimiterCount(text) == Cardinality(Occurrences(strip(text), Delimiter))

\* not blank, not a comment, exactly two parts
DataLineShape(text) ==
    /\ strip(text) # <<>>
    /\ ~startswith(text, "#")
    /\ DelimiterCount(text) = 1

\* the id field of a line of that shape
IdField(text) == SubSeq(strip(text), 1, Least(Occurrences(strip(text), Delimiter)) - 1)

\* a field no reading makes an integer: empty, or holding a character that
\* is no digit, sign, underscore or blank
NotAnInteger(field) ==
    \/ strip(field) = <<>>
    \/ \E k \in 1..Len(field) :
           field[k] \notin DecimalDigits \cup {"+", "-", "_"} \cup Whitespace

\* src without its k-th line
RemoveAt(src, k) == SubSeq(src, 1, k - 1) \o SubSeq(src, k + 1, Len(src))

\* the lines of the file that load_custom_markers stores a grid for
StoredLines == {k \in 1..Len(source) : IsDataLine(LineAt(source, k))}

\* the last line of the file that carries the same id as line k
LastWithIdOf(k) ==
    Greatest({j \in StoredLines :
                  marker_id(LineAt(source, j)) = marker_id(LineAt(source, k))})

\* the number of items of the dict under one id
ItemCount(d, id) == Cardinality({n \in 1..Len(d) : d[n].id = id})

----------------------------------------------------------------------------
(* Properties of load_custom_markers *)

\* the lines of the file that have the shape of a data line and an id field
\* that is no integer
BadIdLines ==
    {k \in 1..Len(source) :
        /\ DataLineShape(LineAt(source, k))
        /\ NotAnInteger(IdField(LineAt(source, k)))}

\* C1: when some data line of the file (not blank, not a comment, exactly two
\* parts) has an id field that is not a valid integer, load_custom_markers
\* never gets past the first such line and never returns a dict: the call ends
\* with an exception, whatever lines precede or follow.
C1_BadIdFailsWholeLoad ==
    BadIdLines # {} =>
        /\ ~Returned
        /\ pos <= Least(BadIdLines)
        /\ LoadEnded => pc = "load_error" /\ err \in {"ValueError", "IndexError"}

\* C1 witness: the load ended with ValueError on a bad id that has stored
\* lines before it and further lines after it
C1_Witness ==
    /\ pc = "load_error"
    /\ err = "ValueError"
    /\ pos \in BadIdLines
    /\ markers # <<>>
    /\ pos < Len(source)

\* the lines that are neither blank nor comments and hold zero, or two or
\* more, delimiters
MalformedLines ==
    {k \in 1..Len(source) :
        /\ strip(LineAt(source, k)) # <<>>
        /\ ~startswith(LineAt(source, k), "#")
        /\ DelimiterCount(LineAt(source, k)) # 1}

\* C2: a line that does not split into exactly two parts on ": " is skipped
\* without error: the load never ends at such a line, and its result (the dict
\* returned, or the exception another line raises) is the result of loading
\* the same file with that line removed.
C2_WrongPartCountSkipped ==
    LoadEnded =>
        \A k \in MalformedLines :
            /\ ~(pc = "load_error" /\ pos = k)
            /\ Outcome = load_custom_markers(RemoveAt(source, k))

\* C2 witness: a returned, non-empty dict from a file that holds a line
\* without delimiter and a line with two delimiters
C2_Witness ==
    /\ Returned
    /\ markers # <<>>
    /\ \E k \in MalformedLines : DelimiterCount(LineAt(source, k)) = 0
    /\ \E k \in MalformedLines : DelimiterCount(LineAt(source, k)) >= 2

\* C5: after a load that returns, every id carried by data lines of the file
\* has exactly one item in the dict, and its grid is the grid of the last
\* data line of the file with that id.
C5_LastWriteWins ==
    Returned =>
        \A k \in StoredLines :
            /\ ItemCount(markers, marker_id(LineAt(source, k))) = 1
            /\ Get(markers, marker_id(LineAt(source, k)))
                   = FillGrid(binary_rows(LineAt(source, LastWithIdOf(k))))

\* C5 witness: a returned dict from a file in which two data lines carry the
\* same id and different grids
C5_Witness ==
    /\ Returned
    /\ \E j, k \in StoredLines :
           /\ j < k
           /\ marker_id(LineAt(source, j)) = marker_id(LineAt(source, k))
           /\ FillGrid(binary_rows(LineAt(source, j)))
                  # FillGrid(binary_rows(LineAt(source, k)))

\* the line just before pos has been parsed and its grid stored as the
\* latest value of its id
JustStored == pos > 1 /\ IsDataLine(LineAt(source, pos - 1))

\* the row tokens and the stored grid of that line
RowsBefore == binary_rows(LineAt(source, pos - 1))

GridBefore == Get(markers, marker_id(LineAt(source, pos - 1)))

\* C6 as stated: a data line with row tokens shorter than 8 is stored, and
\* the cells of such a row beyond the token hold the white intensity.
C6_ShortRowCellsWhite ==
    JustStored =>
        LET rows == RowsBefore
            grid == GridBefore
        IN  /\ marker_id(LineAt(source, pos - 1)) \in Keys(markers)
            /\ \A i \in 0..(Len(rows) - 1) :
                   \A j \in Len(rows[i + 1])..7 : grid[i][j] = White

\* C6 amended: a data line with row tokens shorter than 8 is stored, and the
\* cells of such a row beyond the token hold the value the array was
\* initialized with, 0, which is the black intensity.
C6_ShortRowCellsZero ==
    JustStored =>
        LET rows == RowsBefore
            grid == GridBefore
        IN  /\ marker_id(LineAt(source, pos - 1)) \in Keys(markers)
            /\ \A i \in 0..(Len(rows) - 1) :
                   \A j \in Len(rows[i + 1])..7 :
                       grid[i][j] = 0 /\ grid[i][j] = Black

\* C6 witness: a line with a row token shorter than 8 has just been stored
C6_Witness ==
    /\ JustStored
    /\ \E i \in 1..Len(RowsBefore) : Len(RowsBefore[i]) < 8

\* C7 as stated: row tokens of the wrong length never abort the load; when no
\* id is malformed the load returns and holds every data line's id.
C7_WrongLengthNeverAborts ==
    (LoadEnded /\ BadIdLines = {}) =>
        /\ Returned
        /\ \A k \in StoredLines : marker_id(LineAt(source, k)) \in Keys(markers)

\* C8: every grid of the dict has exactly 8 rows of exactly 8 cells, each
\* cell 255 or 0.
C8_GridShape ==
    \A n \in 1..Len(markers) :
        /\ DOMAIN markers[n].grid = 0..7
        /\ \A i \in 0..7 :
               /\ DOMAIN markers[n].grid[i] = 0..7
               /\ \A j \in 0..7 : markers[n].grid[i][j] \in {White, Black}

\* C8 witness: a returned dict holding the grid of a line with fewer than 8
\* row tokens and the grid of a line with 8 full row tokens
C8_Witness ==
    /\ Returned
    /\ \E k \in StoredLines : Len(binary_rows(LineAt(source, k))) < 8
    /\ \E k \in StoredLines :
           /\ Len(binary_rows(LineAt(source, k))) = 8
           /\ \A i \in 1..8 : Len(binary_rows(LineAt(source, k))[i]) = 8
    /\ Len(markers) >= 2

\* C9 as stated: every key of the dict is a non-negative integer.
C9_KeysNonNegative == \A n \in 1..Len(markers) : markers[n].id >= 0

\* C10: for every character of a row token of a parsed data line, at row i
\* and column j, the cell (i, j) of its grid is 255 exactly when the
\* character is '0' and is 0 for every other character.
C10_CellWhiteIffZeroChar ==
    JustStored =>
        LET rows == RowsBefore
            grid == GridBefore
        IN  \A i \in 0..(Len(rows) - 1) :
                \A j \in 0..(Len(rows[i + 1]) - 1) :
                    /\ grid[i][j] = White <=> rows[i + 1][j + 1] = "0"
                    /\ rows[i + 1][j + 1] # "0" => grid[i][j] = Black

\* C10 witness: the line just stored holds a character other than 0 and 1
C10_Witness ==
    /\ JustStored
    /\ \E i \in 1..Len(RowsBefore) :
           \E j \in 1..Len(RowsBefore[i]) : RowsBefore[i][j] \notin {"0", "1"}

----------------------------------------------------------------------------
(* Properties of create_custom_dictionary *)

\* the ids of the dict that lie in [0, BaseCapacity)
InRangeIds == Keys(markers) \cap Slots

\* C3 as stated: a marker whose id is outside [0, 250), negative ids
\* included, raises no error and writes no slot: the slots that differ from
\* the base dictionary are slots of in-range ids of the set.
C3_OutOfRangeIdsWriteNothing ==
    /\ pc # "create_error"
    /\ pc \in {"create", "done"} =>
           \A s \in Slots :
               bytesList[s] # PredefinedEntry(s) => s \in InRangeIds

\* C4 as stated: the dictionary returned holds, in each slot that is an
\* in-range id of the set, the packed encoding of that id's grid, and in
\* every other slot the entry of the base dictionary.
C4_ExactlyInRangeSlotsOverwritten ==
    pc = "done" =>
        \A s \in Slots :
            bytesList[s] = IF s \in InRangeIds
                           THEN bytes_marker(Get(markers, s))
                           ELSE PredefinedEntry(s)

----------------------------------------------------------------------------
(* Blank and comment lines *)

\* the lines that are empty after trimming, or begin with '#'
IgnorableLines ==
    {k \in 1..Len(source) :
        strip(LineAt(source, k)) = <<>> \/ startswith(LineAt(source, k), "#")}

\* C11: blank lines and comment lines, whatever they contain, are ignored:
\* the load never ends at such a line, no item of the dict comes from it, and
\* the result of the load (the dict returned, or the exception another line
\* raises) is the result of loading the file without that line.
C11_BlankAndCommentIgnored ==
    LoadEnded =>
        \A k \in IgnorableLines :
            /\ ~(pc = "load_error" /\ pos = k)
            /\ Outcome = load_custom_markers(RemoveAt(source, k))

\* C11 witness: a returned, non-empty dict from a file that holds a blank
\* line and a comment whose text contains the delimiter
C11_Witness ==
    /\ Returned
    /\ markers # <<>>
    /\ \E k \in IgnorableLines : strip(LineAt(source, k)) = <<>>
    /\ \E k \in IgnorableLines :
           /\ startswith(LineAt(source, k), "#")
           /\ DelimiterCount(LineAt(source, k)) >= 1

----------------------------------------------------------------------------
(* Round trip of a valid data line *)

\* the grid written back as row tokens: '0' for white, '1' for black
Serialize(grid) ==
    [i \in 1..8 |-> [j \in 1..8 |->
        IF grid[i - 1][j - 1] = White THEN "0" ELSE "1"]]

\* exactly 8 row tokens of exactly 8 characters over '0' and '1'
ValidTokens(rows) ==
    /\ Len(rows) = 8
    /\ \A i \in 1..8 :
           /\ Len(rows[i]) = 8
           /\ \A j \in 1..8 : rows[i][j] \in {"0", "1"}

\* C12: for a data line with an integer id and 8 row tokens of 8 characters
\* over '0' and '1', the grid stored under its id, written back row by row
\* (white as '0', black as '1'), is the sequence of its row tokens.
C12_RoundTrip ==
    JustStored =>
        LET rows == RowsBefore
        IN  ValidTokens(rows) =>
                /\ marker_id(LineAt(source, pos - 1)) \in Keys(markers)
                /\ Serialize(GridBefore) = rows

\* C12 witness: a valid line whose row tokens are not all the same has been
\* stored
C12_Witness ==
    /\ JustStored
    /\ ValidTokens(RowsBefore)
    /\ \E i \in 2..8 : RowsBefore[i] # RowsBefore[1]

----------------------------------------------------------------------------
(* Independence of the stored grids *)

\* the line at pos is a data line whose id is the integer id
LineCarries(id) ==
    /\ Loading
    /\ DataLineShape(LineAt(source, pos))
    /\ ~NotAnInteger(IdField(LineAt(source, pos)))
    /\ marker_id(LineAt(source, pos)) = id

\* C13: the grids stored under distinct ids are independent: a step of the
\* load keeps every item of the dict in place, and changes the grid of an
\* item only when the line it parses carries that item's id.
C13_GridsIndependent ==
    [][\A n \in 1..Len(markers) :
           /\ n <= Len(markers')
           /\ markers'[n].id = markers[n].id
           /\ markers'[n].grid # markers[n].grid => LineCarries(markers[n].id)]_vars

\* C13 witness: two ids are stored with different grids, the second parsed
\* after the first was stored
C13_Witness ==
    /\ Returned
    /\ Len(markers) >= 2
    /\ markers[1].id # markers[2].id
    /\ markers[1].grid # markers[2].grid

----------------------------------------------------------------------------
(* Reading an entry of the dictionary back *)

RECURSIVE Pow2(_)
Pow2(n) == IF n = 0 THEN 1 ELSE 2 * Pow2(n - 1)

\* bit (i, j) of the unrotated 6x6 matrix held by an entry
EncodedBit(entry, i, j) ==
    LET n == 6 * i + j
        b == n \div 8
        hi == IF 8 * b + 7 > 35 THEN 35 ELSE 8 * b + 7
    IN  (entry[b] \div Pow2(hi - n)) % 2

Unpack(entry) == [i \in 0..5 |-> [j \in 0..5 |-> EncodedBit(entry, i, j)]]

----------------------------------------------------------------------------
(* End to end: marker 24 *)

\* 111111, 100001, 101101, 101101, 100001, 111111
Expected24 ==
    <<<<1, 1, 1, 1, 1, 1>>, <<1, 0, 0, 0, 0, 1>>, <<1, 0, 1, 1, 0, 1>>,
      <<1, 0, 1, 1, 0, 1>>, <<1, 0, 0, 0, 0, 1>>, <<1, 1, 1, 1, 1, 1>>>>

----------------------------------------------------------------------------
(* Border stripping and polarity of the encoded entry *)

\* the items of markers whose entry has been written to its slot
EncodedItems ==
    {n \in 1..Len(markers) :
        /\ pc = "done" \/ (pc = "create" /\ n < it)
        /\ markers[n].id \in Slots}

Ring(i, j) == i \in {0, 7} \/ j \in {0, 7}

\* the grid with every cell of the outermost ring set to v
WithRing(grid, v) ==
    [i \in 0..7 |-> [j \in 0..7 |-> IF Ring(i, j) THEN v ELSE grid[i][j]]]

Flipped(v) == IF v = 255 THEN 0 ELSE 255

\* the grid with every cell but (r, c) flipped
FlipExcept(grid, r, c) ==
    [i \in 0..7 |-> [j \in 0..7 |->
        IF i = r /\ j = c THEN grid[i][j] ELSE Flipped(grid[i][j])]]

\* the grid with only cell (r, c) flipped
FlipOnly(grid, r, c) ==
    [i \in 0..7 |-> [j \in 0..7 |->
        IF i = r /\ j = c THEN Flipped(grid[i][j]) ELSE grid[i][j]]]

\* C19: the bit matrix encoded for a marker is 6x6; its entry (i, j) depends
\* only on grid cell (i+1, j+1): it is unchanged when every other cell is
\* flipped and changes when that cell is flipped; grids that differ only in
\* the outermost ring produce the same dictionary entry.
C19_BorderStripped ==
    \A n \in EncodedItems :
        LET grid == markers[n].grid
            entry == bytesList[markers[n].id]
        IN  /\ DOMAIN inner_marker_bin(grid) = 0..5
            /\ \A i \in 0..5 : DOMAIN inner_marker_bin(grid)[i] = 0..5
            /\ \A v \in {0, 255} : bytes_marker(WithRing(grid, v)) = entry
            /\ \A i, j \in 0..5 :
                   /\ EncodedBit(bytes_marker(FlipExcept(grid, i + 1, j + 1)), i, j)
                          = EncodedBit(entry, i, j)
                   /\ EncodedBit(bytes_marker(FlipOnly(grid, i + 1, j + 1)), i, j)
                          # EncodedBit(entry, i, j)

\* C19 witness: an entry has been written for a grid whose outermost ring
\* holds both white and black cells
C19_Witness ==
    \E n \in EncodedItems :
        /\ pc = "done"
        /\ \E i, j, k, l \in 0..7 :
               /\ Ring(i, j) /\ Ring(k, l)
               /\ markers[n].grid[i][j] = 255
               /\ markers[n].grid[k][l] = 0

\* C20: for every inner cell of every encoded marker the encoded bit is 0
\* exactly when the grid cell is 255 and 1 otherwise; with the parser's
\* mapping, the character '0' of a row token encodes to bit 0 and any other
\* character to bit 1.
C20_PolarityInverted ==
    \A n \in EncodedItems :
        LET grid == markers[n].grid
            entry == bytesList[markers[n].id]
            rows == binary_rows(LineAt(source, 1))
        IN  \A i, j \in 0..5 :
                /\ EncodedBit(entry, i, j) = IF grid[i + 1][j + 1] = 255 THEN 0 ELSE 1
                /\ (Len(source) = 1 /\ Len(rows) = 8 /\ Len(rows[i + 2]) = 8) =>
                       EncodedBit(entry, i, j)
                           = IF rows[i + 2][j + 2] = "0" THEN 0 ELSE 1

\* C20 witness: an entry has been written for a line whose inner cells hold
\* a '0', a '1' and a character that is neither
C20_Witness ==
    \E n \in EncodedItems :
        LET rows == binary_rows(LineAt(source, 1))
        IN  /\ pc = "done"
            /\ Len(source) = 1 /\ Len(rows) = 8
            /\ \A i \in 1..8 : Len(rows[i]) = 8
            /\ \E i, j, k, l, p, q \in 2..7 :
                   /\ rows[i][j] = "0"
                   /\ rows[k][l] = "1"
                   /\ rows[p][q] \notin {"0", "1"}

----------------------------------------------------------------------------
(* The front ends: the command line scanner, the web server, the tkinter
   window, the kivy window and the marker utilities *)

MaxAppLines == 2

MaxDetections == 2

Fronts == {"cli", "web", "tk", "kivy", "utils"}

Windowed == {"tk", "kivy"}

AppCatalog ==
    {Marker24, Marker7, MarkerMinus1, Marker249, MarkerMinus251, Marker300,
     BadId, NineRows, NoDelimiter, Comment}

AppSources == UNION {[1..n -> AppCatalog] : n \in 0..MaxAppLines}

InitApp ==
    /\ source \in AppSources
    /\ pos = 1
    /\ markers = <<>>
    /\ pc = "start"
    /\ err = "none"
    /\ it = 1
    /\ bytesList = <<>>
    /\ front \in Fronts
    /\ dictionary = IF front = "tk" THEN "None" ELSE "unset"
    /\ is_running = FALSE
    /\ calls = [load_custom_markers |-> 0, create_custom_dictionary |-> 0,
                detect_markers |-> 0]
    /\ reported = "none"
    /\ handed = FALSE
    /\ GuiInit

\* if not markers_path.exists(): the web server goes on with the predefined
\* dictionary, the command line programs return, the tkinter window shows
\* an error box and calls root.quit(), the kivy window sets its status label
FileMissing ==
    /\ pc = "start"
    /\ reported' = "not found"
    /\ pc' = CASE front = "web" -> "done"
               [] front \in {"cli", "utils"} -> "exit"
               [] front = "tk" -> "quit"
               [] front = "kivy" -> "idle"
    /\ dictionary' = IF front = "web" THEN "object" ELSE dictionary
    /\ bytesList' = IF front = "web" THEN getPredefinedDictionary ELSE bytesList
    /\ UNCHANGED <<source, pos, markers, err, it, calls, front, is_running,
                 handed, gui>>

\* the file exists: load_custom_markers(markers_path)
StartLoad ==
    /\ pc = "start"
    /\ pc' = "load"
    /\ calls' = [calls EXCEPT !.load_custom_markers = @ + 1]
    /\ UNCHANGED <<source, pos, markers, err, it, bytesList, dictionary, shell>>

\* tkinter: if not markers: showerror, root.quit(), return
NoMarkers ==
    /\ front = "tk"
    /\ pc = "load"
    /\ pos > Len(source)
    /\ markers = <<>>
    /\ reported' = "no markers"
    /\ pc' = "quit"
    /\ UNCHANGED <<source, pos, markers, err, it, bytesList, dictionary,
                 calls, front, is_running, handed, gui>>

\* sorted(markers.items())
RECURSIVE SortedItems(_)
SortedItems(d) ==
    IF d = <<>> THEN <<>>
    ELSE LET k == CHOOSE k \in 1..Len(d) : \A n \in 1..Len(d) : d[k].id <= d[n].id
         IN  <<d[k]>> \o SortedItems(RemoveAt(d, k))

\* marker_utils.main goes on to generate_proper_aruco_images(markers, ...),
\* which starts from the predefined dictionary
GenStart ==
    /\ front = "utils"
    /\ pc = "load"
    /\ pos > Len(source)
    /\ pc' = "generate"
    /\ it' = 1
    /\ bytesList' = getPredefinedDictionary
    /\ calls' = [calls EXCEPT !.create_custom_dictionary = @ + 1]
    /\ UNCHANGED <<source, pos, markers, err, dictionary, shell>>

Generating == pc = "generate" /\ it <= Len(markers)

GenSkip ==
    /\ Generating
    /\ ~(SortedItems(markers)[it].id < BaseCapacity)
    /\ it' = it + 1
    /\ UNCHANGED <<source, pos, markers, pc, err, bytesList, dictionary,
                 calls, shell>>

\* dictionary.bytesList[marker_id] = bytes_marker, then
\* cv2.aruco.generateImageMarker(dictionary, marker_id, marker_size)
GenWrite ==
    /\ Generating
    /\ SortedItems(markers)[it].id < BaseCapacity
    /\ InBounds(SortedItems(markers)[it].id)
    /\ bytesList' = [bytesList EXCEPT
                        ![SlotOf(SortedItems(markers)[it].id)] =
                            bytes_marker(SortedItems(markers)[it].grid)]
    /\ handed' = TRUE
    /\ it' = it + 1
    /\ UNCHANGED <<source, pos, markers, pc, err, dictionary, calls, front,
                 is_running, reported, gui>>

\* generateImageMarker is given a negative id: the library may refuse it
GenImageError ==
    /\ Generating
    /\ SortedItems(markers)[it].id < 0
    /\ InBounds(SortedItems(markers)[it].id)
    /\ bytesList' = [bytesList EXCEPT
                        ![SlotOf(SortedItems(markers)[it].id)] =
                            bytes_marker(SortedItems(markers)[it].grid)]
    /\ handed' = TRUE
    /\ pc' = "create_error"
    /\ err' = "ImageError"
    /\ UNCHANGED <<source, pos, markers, it, dictionary, calls, front,
                 is_running, reported, gui>>

GenIndexError ==
    /\ Generating
    /\ SortedItems(markers)[it].id < BaseCapacity
    /\ ~InBounds(SortedItems(markers)[it].id)
    /\ pc' = "create_error"
    /\ err' = "IndexError"
    /\ UNCHANGED <<source, pos, markers, it, bytesList, dictionary, calls,
                 shell>>

\* the loop ends; marker_utils.main returns
GenReturn ==
    /\ pc = "generate"
    /\ it > Len(markers)
    /\ pc' = "exit"
    /\ UNCHANGED <<source, pos, markers, err, it, bytesList, dictionary,
                 calls, shell>>

\* bytes_marker is about to be computed for an item that passed the test
Packing ==
    \/ Creating /\ markers[it].id < BaseCapacity
    \/ Generating /\ SortedItems(markers)[it].id < BaseCapacity

\* variant: the failure is swallowed and the dictionary patched so far is
\* returned
CreatePackErrorReturnsPartial ==
    /\ Packing
    /\ pc' = "done"
    /\ err' = "PackError"
    /\ dictionary' = "object"
    /\ UNCHANGED <<source, pos, markers, it, bytesList, calls, shell>>

\* cv2.aruco.Dictionary.getByteListFromBits raises: neither builder catches
\* anything, the call ends without returning
CreatePackError ==
    /\ Packing
    /\ pc' = "create_error"
    /\ err' = "PackError"
    /\ UNCHANGED <<source, pos, markers, it, bytesList, dictionary, calls,
                 shell>>

Failed == pc \in {"load_error", "create_error"}

\* no handler: the traceback is printed and the process ends
Crash ==
    /\ Failed
    /\ front \in {"cli", "web", "utils"}
    /\ reported' = err
    /\ pc' = "exit"
    /\ UNCHANGED <<source, pos, markers, err, it, bytesList, dictionary,
                 calls, front, is_running, handed, gui>>

\* except Exception as e: tkinter shows an error box and calls root.quit(),
\* kivy sets its status label
Catch ==
    /\ Failed
    /\ front \in Windowed
    /\ reported' = err
    /\ pc' = IF front = "tk" THEN "quit" ELSE "idle"
    /\ UNCHANGED <<source, pos, markers, err, it, bytesList, dictionary,
                 calls, front, is_running, handed, gui>>

\* root.mainloop() is entered after root.quit() was called: the loop ends
\* at once, or the earlier quit is forgotten and the window stays open
Mainloop ==
    /\ pc = "quit"
    /\ pc' \in {"exit", "idle"}
    /\ UNCHANGED <<source, pos, markers, err, it, bytesList, dictionary,
                 calls, shell>>

\* the session is open: the video loop, the socket handlers or the window
Open == pc \in {"done", "idle"}

\* variant: starting the camera loads the markers file again
StartCameraReloads ==
    /\ Open
    /\ front \in Windowed
    /\ ~is_running
    /\ is_running' = TRUE
    /\ pc' = "load"
    /\ pos' = 1
    /\ markers' = <<>>
    /\ calls' = [calls EXCEPT !.load_custom_markers = @ + 1]
    /\ UNCHANGED <<source, err, it, bytesList, dictionary, front, reported,
                 handed, gui>>

StartCamera ==
    /\ Open
    /\ front \in Windowed
    /\ ~is_running
    /\ is_running' = TRUE
    /\ UNCHANGED <<source, pos, markers, pc, err, it, bytesList, dictionary,
                 calls, front, reported, handed, gui>>

StopCamera ==
    /\ Open
    /\ front \in Windowed
    /\ is_running
    /\ is_running' = FALSE
    /\ UNCHANGED <<source, pos, markers, pc, err, it, bytesList, dictionary,
                 calls, front, reported, handed, gui>>

\* a frame reaches detect_markers: an iteration of the video loop, a socket
\* frame, an update_frame tick or a snapshot
Detecting ==
    /\ Open
    /\ calls.detect_markers < MaxDetections
    /\ front \in {"cli", "web"} \/ (front \in Windowed /\ is_running)

\* variant: every detection starts again from the predefined dictionary
DetectResetsDictionary ==
    /\ Detecting
    /\ dictionary = "object"
    /\ handed' = TRUE
    /\ bytesList' = getPredefinedDictionary
    /\ calls' = [calls EXCEPT !.detect_markers = @ + 1]
    /\ UNCHANGED <<source, pos, markers, pc, err, it, dictionary, front,
                 is_running, reported, gui>>

\* cv2.aruco.ArucoDetector(dictionary, parameters).detectMarkers(frame)
Detect ==
    /\ Detecting
    /\ dictionary = "object"
    /\ handed' = TRUE
    /\ calls' = [calls EXCEPT !.detect_markers = @ + 1]
    /\ UNCHANGED <<source, pos, markers, pc, err, it, bytesList, dictionary,
                 front, is_running, reported, gui>>

\* tkinter: if self.dictionary is None: return [], None, []
DetectNone ==
    /\ Detecting
    /\ dictionary = "None"
    /\ calls' = [calls EXCEPT !.detect_markers = @ + 1]
    /\ UNCHANGED <<source, pos, markers, pc, err, it, bytesList, dictionary,
                 shell>>

\* kivy: self.dictionary was never assigned, reading it raises
\* AttributeError in the clock callback; the window ends or goes on
DetectUnset ==
    /\ Detecting
    /\ dictionary = "unset"
    /\ calls' = [calls EXCEPT !.detect_markers = @ + 1]
    /\ err' = "AttributeError"
    /\ pc' \in {"exit", pc}
    /\ UNCHANGED <<source, pos, markers, it, bytesList, dictionary, shell>>

\* 'q' is pressed, the window is closed, the server is stopped
Exit ==
    /\ Open
    /\ pc' = "exit"
    /\ is_running' = FALSE
    /\ UNCHANGED <<source, pos, markers, err, it, bytesList, dictionary,
                 calls, front, reported, handed, gui>>

NextApp ==
    \/ FileMissing
    \/ StartLoad
    \/ SkipCommentOrBlank
    \/ SkipPartCount
    \/ RaiseValueError
    \/ RaiseIndexError
    \/ StoreMarker
    \/ NoMarkers
    \/ LoadReturn
    \/ CreateSkip
    \/ CreateWrite
    \/ CreateIndexError
    \/ CreatePackError
    \/ CreateReturn
    \/ GenStart
    \/ GenSkip
    \/ GenWrite
    \/ GenImageError
    \/ GenIndexError
    \/ GenReturn
    \/ Crash
    \/ Catch
    \/ Mainloop
    \/ StartCamera
    \/ StopCamera
    \/ Detect
    \/ DetectNone
    \/ DetectUnset
    \/ Exit

SpecApp == InitApp /\ [][NextApp]_vars

----------------------------------------------------------------------------
(* The front ends: failures, sharing and ordering *)

\* getByteListFromBits has failed during a build
PackFailed == err = "PackError" \/ reported = "PackError"

\* C15: if the packing primitive fails for any marker during a build, the
\* error reaches the caller and the build is aborted: the caller's dictionary
\* variable never refers to a dictionary, no detector is handed one, and the
\* run is in no state but the propagating error, the closed-down or the
\* dictionary-less session, whichever slots were written before the failure.
C15_PackFailureAbortsBuild ==
    PackFailed =>
        /\ dictionary # "object"
        /\ pc \in {"create_error", "quit", "idle", "exit"}
        /\ front # "utils" => ~handed

\* C15 witness: the primitive failed after a slot had been written, the
\* failure was caught and the window is open without a dictionary
C15_Witness ==
    /\ PackFailed
    /\ pc = "idle"
    /\ bytesList # <<>>
    /\ bytesList # getPredefinedDictionary
    /\ dictionary # "object"

\* C16 as stated: once a dictionary has been returned by its build or handed
\* to a detector or an image generator, in any front end, no step writes
\* its slots.
C16_NeverWrittenOnceHanded ==
    [][(dictionary = "object" \/ handed) => bytesList' = bytesList]_vars

\* C16: in the front ends that detect (command line, web, tkinter, kivy),
\* once a dictionary has been returned by its build or handed to a
\* detector, no step writes its slots, under any interleaving of detections,
\* camera starts and stops.
C16_DetectionNeverWrites ==
    [][(front # "utils" /\ (dictionary = "object" \/ handed)) =>
           bytesList' = bytesList]_vars

\* C16 witness: a dictionary with a patched slot has been handed to the
\* detector repeatedly while the camera of a window was running
C16_Witness ==
    /\ front \in Windowed
    /\ is_running
    /\ handed
    /\ calls.detect_markers >= 2
    /\ bytesList # getPredefinedDictionary

\* loading has failed: the file is missing, or load_custom_markers raised
LoadFailed ==
    \/ pc = "load_error"
    \/ reported = "not found"
    \/ reported \in {"ValueError", "IndexError"} /\ calls.create_custom_dictionary = 0

\* C17 as stated: in every front end, when loading has failed no detection
\* call is ever executed, neither with a substitute dictionary nor with an
\* unset one.
C17_RefusesToStart ==
    LoadFailed => calls.detect_markers = 0 /\ ~handed

\* C18: the parser and the encoder are each entered at most once, and when
\* a detection call has been made neither is running, waiting to run or
\* unwinding; no start, stop, frame or snapshot leads to a second load or
\* build.
C18_LoadAndBuildOnce ==
    /\ calls.load_custom_markers <= 1
    /\ calls.create_custom_dictionary <= 1
    /\ calls.detect_markers > 0 =>
           pc \notin {"start", "load", "load_error", "create", "generate",
                      "create_error", "quit"}
    /\ handed /\ front # "utils" =>
           calls.load_custom_markers = calls.create_custom_dictionary

\* C18 witness: after one load and one build a window has started its
\* camera, detected repeatedly and stopped the camera again
C18_Witness ==
    /\ front \in Windowed
    /\ calls.load_custom_markers = 1
    /\ calls.create_custom_dictionary = 1
    /\ calls.detect_markers >= 2
    /\ ~is_running
    /\ pc = "done"

----------------------------------------------------------------------------
(* The builders as functions of the MarkerSet *)

\* the loop shared by create_custom_dictionary and
\* generate_proper_aruco_images, run over items from its k-th item on
RECURSIVE BuildFrom(_, _, _)
BuildFrom(items, k, bl) ==
    IF k > Len(items) THEN [error |-> "none", bytesList |-> bl]
    ELSE IF ~(items[k].id < BaseCapacity) THEN BuildFrom(items, k + 1, bl)
    ELSE IF ~InBounds(items[k].id)
         THEN [error |-> "IndexError", bytesList |-> <<>>]
    ELSE BuildFrom(items, k + 1,
                   [bl EXCEPT ![SlotOf(items[k].id)] =
                                  bytes_marker(items[k].grid)])

\* for marker_id, marker_array in markers.items()
create_custom_dictionary(d) == BuildFrom(d, 1, getPredefinedDictionary)

\* for marker_id, marker_array in sorted(markers.items()), every image
\* generated
generate_proper_aruco_images(d) ==
    BuildFrom(SortedItems(d), 1, getPredefinedDictionary)

\* a builder has run to its end over the loaded markers
BuildEnded ==
    /\ calls.create_custom_dictionary = 1
    /\ err = "none"
    /\ \/ front # "utils" /\ pc = "done"
       \/ front = "utils" /\ pc = "exit"

\* C21 as stated: the dictionary built from a MarkerSet is the same whether
\* its entries are iterated in insertion order or in numeric-id order.
C21_OrderIndependent ==
    BuildEnded =>
        create_custom_dictionary(markers) = generate_proper_aruco_images(markers)

\* C22 as stated: every copy of load_custom_markers fails or returns the
\* same MarkerSet for the same text, and for every MarkerSet the slots
\* written by create_custom_dictionary and by generate_proper_aruco_images
\* end with identical contents, whichever of them the front end runs.
C22_CopiesEquivalent ==
    /\ pc \in {"load_error", "create", "generate"} =>
           Outcome = load_custom_markers(source)
    /\ BuildEnded =>
           /\ bytesList = create_custom_dictionary(markers).bytesList
           /\ bytesList = generate_proper_aruco_images(markers).bytesList

----------------------------------------------------------------------------
(* The tkinter window after a successful load: the camera button and the
   update_frame threads *)

MaxThreads == 3

\* the state every detailed session starts from: markers loaded from a
\* file and the dictionary built from them
Started(f, src) ==
    /\ source = src
    /\ pos = Len(src) + 1
    /\ markers = load_custom_markers(src).markers
    /\ pc = "done"
    /\ err = "none"
    /\ it = Len(markers) + 1
    /\ bytesList = create_custom_dictionary(markers).bytesList
    /\ front = f
    /\ dictionary = "object"
    /\ is_running = FALSE
    /\ calls = [load_custom_markers |-> 1, create_custom_dictionary |-> 1,
                detect_markers |-> 0]
    /\ reported = "none"
    /\ handed = FALSE
    /\ GuiInit

InitTk == Started("tk", <<Marker24>>)

\* toggle_camera with is_running False: start_camera, the camera opens, the
\* flag is set and a new update_frame thread is started
tk_start_camera ==
    /\ ~is_running
    /\ Len(threads) < MaxThreads
    /\ capture' = "opened"
    /\ is_running' = TRUE
    /\ threads' = Append(threads, "test")
    /\ UNCHANGED <<source, pos, markers, pc, err, it, bytesList, dictionary,
                 calls, front, reported, handed, update_event, frames,
                 emitted, detected_markers, now, last_call>>

\* start_camera, the camera does not open: error box, return
tk_start_camera_fails ==
    /\ ~is_running
    /\ capture' = "unopened"
    /\ UNCHANGED <<source, pos, markers, pc, err, it, bytesList, dictionary,
                 calls, front, is_running, reported, handed, threads,
                 update_event, frames, emitted, detected_markers, now,
                 last_call>>

\* toggle_camera with is_running True: stop_camera clears the flag and
\* releases the capture; it does not wait for the thread
tk_stop_camera ==
    /\ is_running
    /\ is_running' = FALSE
    /\ capture' = "None"
    /\ UNCHANGED <<source, pos, markers, pc, err, it, bytesList, dictionary,
                 calls, front, reported, handed, threads, update_event,
                 frames, emitted, detected_markers, now, last_call>>

\* thread n moves to the place p
Moves(n, p) ==
    /\ threads' = [threads EXCEPT ![n] = p]
    /\ UNCHANGED <<source, pos, markers, pc, err, it, bytesList, dictionary,
                 calls, front, is_running, reported, capture, update_event,
                 frames, emitted, detected_markers, now, last_call>>

\* while self.is_running:
tk_update_frame_test ==
    \E n \in 1..Len(threads) :
        /\ threads[n] = "test"
        /\ Moves(n, IF is_running THEN "read" ELSE "exited")
        /\ UNCHANGED handed

\* ret, frame = self.capture.read(): a frame, no frame, or an exception
\* when the capture is None; without a frame the thread sleeps
tk_update_frame_read ==
    \E n \in 1..Len(threads) :
        /\ threads[n] = "read"
        /\ \E ret \in BOOLEAN :
               Moves(n, IF capture = "opened" /\ ret THEN "frame" ELSE "sleep")
        /\ UNCHANGED handed

\* detect_markers, update_detected_markers, draw_markers, root.after
tk_update_frame_body ==
    \E n \in 1..Len(threads) :
        /\ threads[n] = "frame"
        /\ Moves(n, "test")
        /\ handed' = TRUE

\* time.sleep(0.1), then the next iteration
tk_update_frame_sleep ==
    \E n \in 1..Len(threads) :
        /\ threads[n] = "sleep"
        /\ Moves(n, "test")
        /\ UNCHANGED handed

\* take_snapshot while the camera runs: read, detect_markers, save
tk_take_snapshot ==
    /\ is_running
    /\ capture # "None"
    /\ handed' = TRUE
    /\ UNCHANGED <<source, pos, markers, pc, err, it, bytesList, dictionary,
                 calls, front, is_running, reported, gui>>

NextTk ==
    \/ tk_start_camera
    \/ tk_start_camera_fails
    \/ tk_stop_camera
    \/ tk_update_frame_test
    \/ tk_update_frame_read
    \/ tk_update_frame_body
    \/ tk_update_frame_sleep
    \/ tk_take_snapshot

SpecTk == InitTk /\ [][NextTk]_vars

\* the update_frame threads that have not left their loop
LiveThreads == {n \in 1..Len(threads) : threads[n] # "exited"}

\* C23 as stated: for any sequence of toggle_camera calls at most one
\* update_frame thread is in its loop at any time; a thread started earlier
\* has exited before a later start_camera starts a new one.
C23_OneVideoThread == Cardinality(LiveThreads) <= 1

----------------------------------------------------------------------------
(* The kivy window after a successful load: the camera button, the clock
   callback and the list of detected markers *)

MaxTime == 7

\* self.marker_timeout = 5
marker_timeout == 5

\* the ids a detection can report
CameraIds == {7, 24}

InitKivy == Started("kivy", <<Marker24, Marker7>>)

\* variant: an entry is dropped as soon as its age reaches the timeout
update_detected_markers_at_timeout(dm, ids, current_time) ==
    LET added == [id \in DOMAIN dm \cup ids |->
                     IF id \in ids THEN current_time ELSE dm[id]]
        markers_to_remove ==
            {id \in DOMAIN added : current_time - added[id] >= marker_timeout}
    IN  [detected_markers |->
             [id \in DOMAIN added \ markers_to_remove |-> added[id]],
         markers_to_remove |-> markers_to_remove]

\* update_detected_markers: the detected ids get the current time, then the
\* entries older than the timeout are collected and deleted
update_detected_markers(dm, ids, current_time) ==
    LET added == [id \in DOMAIN dm \cup ids |->
                     IF id \in ids THEN current_time ELSE dm[id]]
        markers_to_remove ==
            {id \in DOMAIN added : current_time - added[id] > marker_timeout}
    IN  [detected_markers |->
             [id \in DOMAIN added \ markers_to_remove |-> added[id]],
         markers_to_remove |-> markers_to_remove]

\* toggle_camera with is_running False: start_camera, the camera opens and
\* update_frame is scheduled
kivy_start_camera ==
    /\ pc = "done"
    /\ ~is_running
    /\ capture' = "opened"
    /\ is_running' = TRUE
    /\ update_event' = "scheduled"
    /\ UNCHANGED <<source, pos, markers, pc, err, it, bytesList, dictionary,
                 calls, front, reported, handed, threads, frames, emitted,
                 detected_markers, now, last_call>>

\* start_camera, the camera does not open: the new capture object is kept,
\* the status label is set, return
kivy_start_camera_fails ==
    /\ pc = "done"
    /\ ~is_running
    /\ capture' = "unopened"
    /\ UNCHANGED <<source, pos, markers, pc, err, it, bytesList, dictionary,
                 calls, front, is_running, reported, handed, threads,
                 update_event, frames, emitted, detected_markers, now,
                 last_call>>

\* toggle_camera with is_running True: stop_camera
kivy_stop_camera ==
    /\ pc = "done"
    /\ is_running
    /\ capture # "None"
    /\ update_event' = "cancelled"
    /\ capture' = "None"
    /\ is_running' = FALSE
    /\ UNCHANGED <<source, pos, markers, pc, err, it, bytesList, dictionary,
                 calls, front, reported, handed, threads, frames, emitted,
                 detected_markers, now, last_call>>

\* the clock calls update_frame: with a frame, detect_markers and
\* update_detected_markers(ids); without one nothing is done
kivy_update_frame ==
    /\ pc = "done"
    /\ update_event = "scheduled"
    /\ capture # "None" /\ is_running
    /\ \E ids \in SUBSET CameraIds :
           LET r == update_detected_markers(detected_markers, ids, now)
           IN  /\ detected_markers' = r.detected_markers
               /\ last_call' = [t |-> now, ids |-> ids,
                                removed |-> r.markers_to_remove]
    /\ handed' = TRUE
    /\ UNCHANGED <<source, pos, markers, pc, err, it, bytesList, dictionary,
                 calls, front, is_running, reported, threads, capture,
                 update_event, frames, emitted, now>>

\* take_snapshot while the camera runs: read, detect_markers, save
kivy_take_snapshot ==
    /\ pc = "done"
    /\ capture # "None" /\ is_running
    /\ handed' = TRUE
    /\ UNCHANGED <<source, pos, markers, pc, err, it, bytesList, dictionary,
                 calls, front, is_running, reported, gui>>

\* the window is closed: on_stop calls stop_camera, which with a capture
\* object unschedules self.update_event; the attribute does not exist
\* before the first successful start
kivy_on_stop ==
    /\ pc = "done"
    /\ pc' = "exit"
    /\ IF capture = "None"
       THEN UNCHANGED <<err, capture, update_event, is_running>>
       ELSE IF update_event = "unset"
            THEN /\ err' = "AttributeError"
                 /\ UNCHANGED <<capture, update_event, is_running>>
            ELSE /\ update_event' = "cancelled"
                 /\ capture' = "None"
                 /\ is_running' = FALSE
                 /\ UNCHANGED err
    /\ UNCHANGED <<source, pos, markers, it, bytesList, dictionary, calls,
                 front, reported, handed, threads, frames, emitted,
                 detected_markers, now, last_call>>

\* time passes
Tick ==
    /\ pc = "done"
    /\ now < MaxTime
    /\ now' = now + 1
    /\ UNCHANGED <<source, pos, markers, pc, err, it, bytesList, dictionary,
                 calls, front, is_running, reported, handed, threads,
                 capture, update_event, frames, emitted, detected_markers,
                 last_call>>

NextKivy ==
    \/ kivy_start_camera
    \/ kivy_start_camera_fails
    \/ kivy_stop_camera
    \/ kivy_update_frame
    \/ kivy_take_snapshot
    \/ kivy_on_stop
    \/ Tick

SpecKivy == InitKivy /\ [][NextKivy]_vars

\* C24 as stated: in every reachable state of the kivy window capture is
\* non-None exactly when is_running is True and a frame update is scheduled,
\* and stop_camera never unschedules an update_event that was never created.
C24_CaptureIffRunning ==
    /\ capture # "None" <=> is_running
    /\ is_running <=> update_event = "scheduled"
    /\ err # "AttributeError"

\* C26: after every completed update_detected_markers at time t each id
\* detected in the call is present with timestamp t and no entry is older
\* than marker_timeout; an entry disappears only in a call that did not
\* detect its id and ran more than marker_timeout after its timestamp, and
\* an entry that stays and was not detected keeps its timestamp.
C26_Expiry ==
    /\ [](last_call # <<>> =>
            /\ \A id \in last_call.ids :
                   id \in DOMAIN detected_markers
                   /\ detected_markers[id] = last_call.t
            /\ \A id \in DOMAIN detected_markers :
                   ~(last_call.t - detected_markers[id] > marker_timeout))
    /\ [][\A id \in DOMAIN detected_markers :
              IF id \in DOMAIN detected_markers'
              THEN detected_markers'[id] # detected_markers[id] =>
                       id \in last_call'.ids /\ detected_markers'[id] = now
              ELSE /\ last_call' # last_call
                   /\ id \notin last_call'.ids
                   /\ last_call'.t - detected_markers[id] > marker_timeout]_vars

\* C26 witness: a call has removed an expired entry and kept a younger one
C26_Witness ==
    /\ last_call # <<>>
    /\ last_call.removed # {}
    /\ last_call.ids = {}
    /\ DOMAIN detected_markers # {}

----------------------------------------------------------------------------
(* The web server after a successful start: the 'frame' handler *)

MaxFrames == 3

\* what a client can send as the data of a 'frame' event
Payloads ==
    {"no image key", "no comma", "bad base64", "not an image",
     "detector fails", "image"}

\* the statements of the try block, in order
TrySteps ==
    <<"data['image']", "split(',')[1]", "b64decode", "imdecode",
      "frame.shape", "detect_markers", "draw_markers", "imencode",
      "emit processed_frame">>

\* the exception a statement raises for a payload, or "none"
Raises(step, payload) ==
    CASE step = "data['image']" /\ payload = "no image key" -> "KeyError"
      [] step = "split(',')[1]" /\ payload = "no comma" -> "IndexError"
      [] step = "b64decode" /\ payload = "bad base64" -> "binascii.Error"
      [] step = "frame.shape" /\ payload = "not an image" -> "AttributeError"
      [] step = "detect_markers" /\ payload = "detector fails" -> "cv2.error"
      [] OTHER -> "none"

\* the try block from its k-th statement on: the messages emitted, whether
\* the detector was given the dictionary, and the exception raised
RECURSIVE RunTry(_, _, _, _)
RunTry(payload, k, out, det) ==
    IF k > Len(TrySteps) THEN [emitted |-> out, detector |-> det, raised |-> "none"]
    ELSE IF Raises(TrySteps[k], payload) # "none"
         THEN [emitted |-> out, detector |-> det \/ TrySteps[k] = "detect_markers",
               raised |-> Raises(TrySteps[k], payload)]
    ELSE RunTry(payload, k + 1,
                IF TrySteps[k] = "emit processed_frame"
                THEN Append(out, "processed_frame") ELSE out,
                det \/ TrySteps[k] = "detect_markers")

\* variant: except cv2.error, every other exception leaves the handler
handle_frame_catches_detector_only(payload) ==
    LET t == RunTry(payload, 1, <<>>, FALSE)
    IN  IF t.raised = "cv2.error"
        THEN [emitted |-> Append(t.emitted, "error"), detector |-> t.detector,
              raised |-> "none"]
        ELSE t

\* handle_frame: the try block, and on any Exception emit('error', ...)
handle_frame(payload) ==
    LET t == RunTry(payload, 1, <<>>, FALSE)
    IN  IF t.raised # "none"
        THEN [emitted |-> Append(t.emitted, "error"), detector |-> t.detector,
              raised |-> "none"]
        ELSE t

InitWeb == Started("web", <<Marker24>>)

\* a 'frame' event arrives and handle_frame runs to its end
web_handle_frame ==
    /\ pc = "done"
    /\ Len(frames) < MaxFrames
    /\ \E payload \in Payloads :
           LET r == handle_frame(payload)
           IN  /\ frames' = Append(frames, payload)
               /\ emitted' = Append(emitted, r.emitted)
               /\ handed' = (handed \/ r.detector)
               /\ err' = IF r.raised # "none" THEN r.raised ELSE err
    /\ UNCHANGED <<source, pos, markers, pc, it, bytesList, dictionary,
                 calls, front, is_running, reported, threads, capture,
                 update_event, detected_markers, now, last_call>>

NextWeb == web_handle_frame

SpecWeb == InitWeb /\ [][NextWeb]_vars

\* C25: every 'frame' event, whatever its payload, has exactly one message
\* emitted back, 'processed_frame' when the payload is a decodable image
\* and the detector succeeds, 'error' otherwise; no exception leaves the
\* handler; the shared dictionary is left as the start-up built it.
C25_OneReplyPerFrame ==
    /\ Len(emitted) = Len(frames)
    /\ \A k \in 1..Len(frames) :
           /\ Len(emitted[k]) = 1
           /\ emitted[k][1] = IF frames[k] = "image" THEN "processed_frame"
                                                     ELSE "error"
    /\ err = "none"
    /\ dictionary = "object"
    /\ bytesList = create_custom_dictionary(markers).bytesList

\* C25 witness: frames of every kind of failure and a good frame have been
\* handled
C25_Witness ==
    /\ \E k \in 1..Len(frames) : frames[k] = "image"
    /\ \E k \in 1..Len(frames) : frames[k] = "no image key"
    /\ \E k \in 1..Len(frames) : frames[k] = "detector fails"
    /\ handed

====
